---- MODULE Spec2Model ----
(***************************************************************************)
(* Model of the reservation flow of the smart-parking dashboard            *)
(* (frontend/src/components/UserDashboard.js): the occupancy cache         *)
(* (parkingLots), the allocation protocol (makeReservation and its toast   *)
(* prompts), session persistence (finalizeReservation, localStorage) and   *)
(* the WebSocket feed handler.                                             *)
(*                                                                         *)
(* React closures are modelled explicitly: a handler sees the state of the *)
(* render that created it.  A user action on the page sees the current     *)
(* state; a button inside a toast prompt sees the state captured by the    *)
(* makeReservation call that created the prompt.                           *)
(***************************************************************************)
EXTENDS Integers, Sequences, FiniteSets, TLC

\* ------------------------------------------------------------------------
\* Bounds of the model
\* ------------------------------------------------------------------------
MaxRuns == 2        \* concurrent makeReservation closure chains
MaxIds == 2         \* reservation ids handed out (server or local)
MaxList == 2        \* cap on the in-memory / stored reservation lists
MaxReserved == 2    \* cap on a lot's reserved_slots counter
MaxTime == 1        \* clock ticks
MaxSockets == 2     \* WebSocket objects that exist at a time
MaxStamp == 2       \* logical timestamps carried by feed events

\* ------------------------------------------------------------------------
\* Data of the environment
\* ------------------------------------------------------------------------
LotIds == <<"P1", "P2">>
LotIdSet == {LotIds[i] : i \in DOMAIN LotIds}
\* two lots far from the destination, which the backend also reports
FarLotIds == {"P3", "P4"}
AllLotIds == LotIdSet \cup FarLotIds
TotalSlots(id) == IF id = "P2" THEN 2 ELSE 1
\* distance lot -> destination in tenths of a km (result of the haversine
\* formula for the one destination of the model)
Dist10(id) ==
  CASE id = "P1" -> 10
    [] id = "P2" -> 30
    [] id = "P3" -> 260
    [] OTHER -> 300

None == "none"

Max(a, b) == IF a >= b THEN a ELSE b

\* absent values (null / undefined / missing localStorage key)
NoLot ==
  [lot_id |-> None, total_slots |-> 0, occupied_slots |-> 0,
   reserved_slots |-> 0, competitive_slots |-> 0]
NoRes == [reservation_id |-> 0, lot_id |-> None, status |-> None, timestamp |-> 0]
\* a localStorage value that JSON.parse cannot read
Unreadable ==
  [reservation_id |-> 0, lot_id |-> "unreadable", status |-> None, timestamp |-> 0]
NoDash ==
  [currentLocation |-> None, destination |-> None,
   hasActiveReservation |-> FALSE, timestamp |-> 0]
\* a dashboard_state value that JSON.parse cannot read
UnreadableDash ==
  [currentLocation |-> None, destination |-> "unreadable",
   hasActiveReservation |-> FALSE, timestamp |-> 0]
NoClosure ==
  [hasActiveReservation |-> FALSE, reservationLoading |-> FALSE,
   parkingLots |-> <<>>, destination |-> None]

MkLot(id, occ, res, comp) ==
  [lot_id |-> id, total_slots |-> TotalSlots(id), occupied_slots |-> occ,
   reserved_slots |-> res, competitive_slots |-> comp]

\* ------------------------------------------------------------------------
\* findBestAlternateLotsCRPark (UserDashboard.js 811-848).
\* total_score is a sum of five weighted terms; here it is kept as an exact
\* fraction ScoreNum / ScoreDen with ScoreNum scaled by 10000.
\* ------------------------------------------------------------------------
Utilized(l) == l.occupied_slots + l.reserved_slots

CompDen(l) == IF l.competitive_slots > 0 THEN l.competitive_slots ELSE 1

ScoreDen(l) == l.total_slots * CompDen(l)

ScoreNum(l) ==
  LET T == l.total_slots
      n == Utilized(l)
      c == CompDen(l)
      d == Dist10(l.lot_id)
  IN  \* weights.distance * max(0, 1 - dist/5)
      50 * Max(0, 50 - d) * T * c
      \* weights.availability * (1 - utilization)
    + 3000 * (T - n) * c
      \* weights.cost * max(0, 1 - cost/100), cost = 25 + 3 dist + 10 utilization
    + 2 * Max(0, 750 * T - 3 * d * T - 100 * n) * c
      \* weights.waiting * max(0, 1 - waiting/10), waiting = max(1, 10 utilization)
    + 150 * Max(0, 10 * T - Max(T, 10 * n)) * c
      \* weights.competition * max(0, 1 - competition)
    + (IF l.competitive_slots > 0 THEN 1000 * (l.competitive_slots - 1) * T ELSE 0)

\* a.total_score >= b.total_score
ScoreGeq(a, b) == ScoreNum(a) * ScoreDen(b) >= ScoreNum(b) * ScoreDen(a)

HasFreeCapacity(l) == l.total_slots > l.occupied_slots + l.reserved_slots

\* position of x in a sequence already sorted by descending score: after
\* every element whose score is >= the score of x (Array.prototype.sort is
\* stable)
RECURSIVE InsertByScore(_, _)
InsertByScore(x, s) ==
  IF s = <<>> THEN <<x>>
  ELSE IF ScoreGeq(Head(s), x) THEN <<Head(s)>> \o InsertByScore(x, Tail(s))
       ELSE <<x>> \o s

RECURSIVE SortByScore(_)
SortByScore(s) ==
  IF s = <<>> THEN <<>>
  ELSE InsertByScore(s[Len(s)], SortByScore(SubSeq(s, 1, Len(s) - 1)))

Take(s, n) == SubSeq(s, 1, IF Len(s) < n THEN Len(s) ELSE n)

findBestAlternateLotsCRPark(lots, dest, count) ==
  IF dest = None \/ Len(lots) = 0 THEN <<>>
  ELSE Take(SortByScore(SelectSeq(lots, HasFreeCapacity)), count)

\* parkingLots.find((l) => l.lot_id === lotId)
RECURSIVE FindLot(_, _)
FindLot(lots, id) ==
  IF lots = <<>> THEN NoLot
  ELSE IF Head(lots).lot_id = id THEN Head(lots) ELSE FindLot(Tail(lots), id)

\* ------------------------------------------------------------------------
\* State
\* ------------------------------------------------------------------------
VARIABLES
  \* React state of the mounted UserDashboard instance (lines 50-118)
  mounted, hasActiveReservation, reservationLoading, parkingLots,
  reservations, destination, selectedLot, costPrediction, liveUpdates,
  \* localStorage
  active_reservation, reservation_history, reservations_history,
  dashboard_state,
  \* asynchronous activities: makeReservation closure chains, fetches in
  \* flight
  runs, fetchLotsPending, fetchResPending,
  \* WebSocket connections, wsRef.current
  sockets, wsRef,
  \* environment: the document was loaded by a reload, clock, id counter
  docReloaded, now, nextId,
  \* history: per lot, the reservation ids whose adjustment is contained in
  \* the counts of the cache, by the optimistic update (opt) and by a feed
  \* event (fed), and the newest timestamp of the sensor updates written
  \* into them (ts), since the cache was last filled
  applied,
  \* the MyReservations page (pages/MyReservations.js): shown or not, and
  \* its history state
  myReservations

memVars == <<mounted, hasActiveReservation, reservationLoading, parkingLots,
             reservations, destination, selectedLot, costPrediction,
             liveUpdates>>
storeVars == <<active_reservation, reservation_history, reservations_history,
               dashboard_state>>
asyncVars == <<runs, fetchLotsPending, fetchResPending>>
wsVars == <<sockets, wsRef>>
envVars == <<docReloaded, now, nextId, applied, myReservations>>
vars == <<memVars, storeVars, asyncVars, wsVars, envVars>>

RunIds == 1..MaxRuns
SockIds == 1..MaxSockets

TickMinutes == 31           \* minutes that pass in one clock tick
ExpiryMinutes == 30         \* 1000 * 60 * 30 ms
NowMinutes == now * TickMinutes

Destination == "D1"
CurrentLocation == "here"

\* the state a handler created by the current render closes over (the
\* variables that makeReservation and the functions it calls read; the
\* costPrediction and selectedLot copied into the dashboard snapshot only
\* feed the display and are left out of it)
CurrentClosure ==
  [hasActiveReservation |-> hasActiveReservation,
   reservationLoading |-> reservationLoading,
   parkingLots |-> parkingLots,
   destination |-> destination]

NoReq == [parking_lot_id |-> None, first_request |-> FALSE]

IdleRun ==
  [pc |-> "idle", lotId |-> None, c |-> NoClosure, alive |-> FALSE, req |-> NoReq,
   alt |-> None, kind |-> None,
   \* history of the chain, kept for the properties
   viaFallback |-> FALSE, confirmed |-> FALSE, rejectedLot |-> None,
   nSecond |-> 0]

NoApplied == [id \in AllLotIds |-> [opt |-> {}, fed |-> {}, ts |-> 0]]

InCache(lots, id) == \E i \in DOMAIN lots : lots[i].lot_id = id

PageClosed == [open |-> FALSE, history |-> <<>>]

\* (reconnected is history: the connection was opened by the reconnect timer)
NoSocket ==
  [st |-> "free", liveUpdates |-> FALSE, resIds |-> {}, alive |-> FALSE,
   reconnected |-> FALSE]
Init ==
  /\ mounted = FALSE
  /\ hasActiveReservation = FALSE
  /\ reservationLoading = FALSE
  /\ parkingLots = <<>>
  /\ reservations = <<>>
  /\ destination = None
  /\ selectedLot = NoLot
  /\ costPrediction = None
  /\ liveUpdates = TRUE
  /\ active_reservation = NoRes
  /\ reservation_history = <<>>
  /\ reservations_history = <<>>
  /\ dashboard_state = NoDash
  /\ runs = [r \in RunIds |-> IdleRun]
  /\ fetchLotsPending = FALSE
  /\ fetchResPending = FALSE
  /\ sockets = [k \in SockIds |-> NoSocket]
  /\ wsRef = 0
  /\ docReloaded = FALSE
  /\ now = 0
  /\ nextId = 1
  /\ applied = NoApplied
  /\ myReservations = PageClosed

\* ------------------------------------------------------------------------
\* Helpers
\* ------------------------------------------------------------------------
IsPrompt(run) == run.pc \in {"retry_prompt", "alt_prompt"}

FreeRun == CHOOSE r \in RunIds : runs[r].pc = "idle" /\ \A q \in RunIds : runs[q].pc = "idle" => r <= q

\* toast.dismiss() without an id removes every toast, prompts included
DismissAllToasts(rs) == [r \in RunIds |-> IF IsPrompt(rs[r]) THEN IdleRun ELSE rs[r]]

\* the guards of makeReservation, evaluated in the closure c of the render
\* that created the caller (UserDashboard.js 575-598)
makeReservationGuard(c, lotId) ==
  IF lotId = None THEN "no_lot"
  ELSE IF c.hasActiveReservation THEN "active"
  ELSE IF c.reservationLoading THEN "in_progress"
  ELSE IF FindLot(c.parkingLots, lotId) = NoLot THEN "not_found"
  ELSE "send"

\* body of the first commit request (600-604)
FirstRequest(lotId) == [parking_lot_id |-> lotId, first_request |-> TRUE]

\* a second-chance request that goes to the best-scored lot of the cache
RetryRequestBestLot(run) ==
  [parking_lot_id |->
     findBestAlternateLotsCRPark(run.c.parkingLots, run.c.destination, 1)[1].lot_id,
   first_request |-> FALSE]

\* body of the second-chance request (655-659)
RetryRequest(run) == [parking_lot_id |-> run.lotId, first_request |-> FALSE]

\* the run record of a makeReservation call that has sent its first request
StartedRun(c, alive, lotId, viaFallback) ==
  [IdleRun EXCEPT !.pc = "first", !.lotId = lotId, !.c = c,
                  !.alive = alive, !.req = FirstRequest(lotId),
                  !.viaFallback = viaFallback]

\* ------------------------------------------------------------------------
\* makeReservation called from the page: "Reserve Now" of the prediction
\* card (1187), a free slot of the selected lot (1284-1295), "Reserve Now"
\* of the selected lot (1323).  All three run the current render's closure.
\* ------------------------------------------------------------------------
\* (slotNumber only chooses the slot_id of the record, which is not modelled)
StartFromPage(lotId) ==
  /\ makeReservationGuard(CurrentClosure, lotId) = "send"
  /\ \E r \in RunIds : runs[r].pc = "idle"
  /\ runs' = [runs EXCEPT ![FreeRun] =
                StartedRun(CurrentClosure, TRUE, lotId, FALSE)]
  /\ reservationLoading' = TRUE
  /\ UNCHANGED <<mounted, hasActiveReservation, parkingLots, reservations,
                 destination, selectedLot, costPrediction, liveUpdates,
                 storeVars, fetchLotsPending, fetchResPending,
                 wsVars, envVars>>

ReserveNow ==
  /\ mounted
  /\ costPrediction # None
  /\ ~(reservationLoading \/ hasActiveReservation)     \* disabled attribute
  /\ StartFromPage(costPrediction)

SlotClick(i) ==
  /\ mounted
  /\ selectedLot # NoLot
  /\ i < selectedLot.total_slots
  /\ ~hasActiveReservation
  /\ i >= selectedLot.occupied_slots + selectedLot.reserved_slots   \* status free
  /\ StartFromPage(selectedLot.lot_id)

ReserveSelected ==
  /\ mounted
  /\ selectedLot # NoLot
  /\ ~(reservationLoading \/ selectedLot.competitive_slots = 0)    \* disabled attribute
  /\ StartFromPage(selectedLot.lot_id)

\* ------------------------------------------------------------------------
\* finalizeReservation (734-807)
\* ------------------------------------------------------------------------
\* `resv-${Date.now()}`: a locally generated id, distinct from every server
\* id and from the local id of every other accepted response
LocalId(n) == 100 + n

NewReservation(resId, lotId) ==
  [reservation_id |-> resId, lot_id |-> lotId, status |-> "active",
   timestamp |-> NowMinutes]

Completed(res) == [res EXCEPT !.status = "completed"]

\* a save that keeps only the new reservation
HistoryOnlyNew(history, oldActive, newRes) == <<newRes>>

\* what localStorage "reservation_history" holds after lines 749-763: the
\* write of line 755 is overwritten by the write of line 763, whose list is
\* built from the history read at line 751
HistoryAfterFinalize(history, oldActive, newRes) == Append(history, newRes)

\* lines 771-781
OptimisticUpdate(lots, lotId) ==
  [i \in DOMAIN lots |->
     IF lots[i].lot_id = lotId
     THEN [lots[i] EXCEPT !.reserved_slots = lots[i].reserved_slots + 1,
                          !.competitive_slots = Max(lots[i].competitive_slots - 1, 0)]
     ELSE lots[i]]

\* lines 787-797
DashboardSnapshot(c) ==
  [currentLocation |-> CurrentLocation, destination |-> c.destination,
   hasActiveReservation |-> TRUE, timestamp |-> NowMinutes]

\* catch blocks (711-716, 725-729): a toast, then setReservationLoading(false)
Failed(r) ==
  /\ runs' = [runs EXCEPT ![r] = IdleRun]
  /\ reservationLoading' = IF runs[r].alive THEN FALSE ELSE reservationLoading
  /\ UNCHANGED <<mounted, hasActiveReservation, parkingLots, reservations,
                 destination, selectedLot, costPrediction, liveUpdates,
                 storeVars, fetchLotsPending, fetchResPending,
                 wsVars, docReloaded, now, applied,
                 myReservations>>

\* JSON.parse of line 750 throws on a value it cannot read
ParseThrows(stored) == stored = Unreadable

\* finalizeReservation called by run r with reservation id resId; setState
\* calls reach the instance only while it is mounted.  An exception thrown
\* by line 750 leaves finalizeReservation before its first write and is
\* caught by the catch block of the caller.
Finalize(r, resId) ==
  LET run == runs[r]
      newRes == NewReservation(resId, run.lotId)
      allHistory == HistoryAfterFinalize(reservation_history, active_reservation, newRes)
  IN  IF ParseThrows(active_reservation)
      THEN Failed(r)
      ELSE
      /\ active_reservation' = newRes
      /\ reservation_history' = allHistory
      /\ dashboard_state' = DashboardSnapshot(run.c)
      /\ IF run.alive
         THEN /\ reservations' = allHistory
              /\ hasActiveReservation' = TRUE
              /\ reservationLoading' = FALSE
              /\ parkingLots' = OptimisticUpdate(parkingLots, run.lotId)
              /\ applied' = IF InCache(parkingLots, run.lotId)
                            THEN [applied EXCEPT ![run.lotId].opt = @ \cup {resId}]
                            ELSE applied
         ELSE UNCHANGED <<reservations, hasActiveReservation,
                          reservationLoading, parkingLots, applied>>
      /\ runs' = [DismissAllToasts(runs) EXCEPT ![r] = IdleRun]
      /\ UNCHANGED <<mounted, destination, selectedLot, costPrediction,
                     liveUpdates, reservations_history, fetchLotsPending,
                     fetchResPending, wsVars, docReloaded, now,
                     myReservations>>

\* ------------------------------------------------------------------------
\* makeReservation after the first response (605-724).  A response action
\* is the arrival of the response together with the code that runs after
\* the await; status "error" is a fetch that fails.
\* ------------------------------------------------------------------------
Statuses == {"accepted", "pending", "rejected", "error"}

\* a first rejection that resubmits by itself
AfterFirstRejectedAutoRetry(run) ==
  [run EXCEPT !.pc = "second", !.req = [parking_lot_id |-> run.lotId, first_request |-> FALSE],
              !.confirmed = FALSE, !.rejectedLot = run.lotId, !.nSecond = 1]

\* the run after a first response that is neither accepted nor pending: the
\* "Retry Reservation?" prompt is shown and nothing is sent
AfterFirstRejected(run) ==
  [run EXCEPT !.pc = "retry_prompt", !.req = NoReq, !.confirmed = FALSE,
              !.rejectedLot = run.lotId, !.nSecond = 0]

\* the statuses for which line 607 calls finalizeReservation
FirstAccepts(status) == status \in {"accepted", "pending"}

FirstResponse(r, status) ==
  /\ runs[r].pc = "first"
  /\ IF status = "error"
     THEN Failed(r) /\ UNCHANGED nextId
     ELSE IF FirstAccepts(status)
     THEN /\ nextId <= MaxIds
          /\ nextId' = nextId + 1
          /\ Finalize(r, nextId)
     ELSE /\ runs' = [runs EXCEPT ![r] = AfterFirstRejected(runs[r])]
          /\ UNCHANGED <<memVars, storeVars, fetchLotsPending,
                         fetchResPending, wsVars, envVars>>

\* the prompt shown after "No" (624-643) and after a rejected second chance
\* (669-709): the first of the alternates found in the closure's lots
AlternatePrompt(run, count, kind) ==
  LET alts == findBestAlternateLotsCRPark(run.c.parkingLots, run.c.destination, count)
  IN  IF Len(alts) > 0
      THEN [run EXCEPT !.pc = "alt_prompt", !.alt = alts[1].lot_id,
                       !.kind = kind, !.req = NoReq]
      ELSE IdleRun

\* "No" of the retry prompt (621-644)
RetryNo(r) ==
  /\ runs[r].pc = "retry_prompt"
  /\ reservationLoading' = IF runs[r].alive THEN FALSE ELSE reservationLoading
  /\ runs' = [runs EXCEPT ![r] = AlternatePrompt(runs[r], 1, "no")]
  /\ UNCHANGED <<mounted, hasActiveReservation, parkingLots, reservations,
                 destination, selectedLot, costPrediction, liveUpdates,
                 storeVars, fetchLotsPending, fetchResPending, wsVars, envVars>>

\* "Yes" of the retry prompt up to its await (651-659)
AfterRetryYes(run) ==
  [run EXCEPT !.pc = "second", !.req = RetryRequest(run), !.confirmed = TRUE,
              !.nSecond = run.nSecond + 1]

RetryYes(r) ==
  /\ runs[r].pc = "retry_prompt"
  /\ runs' = [runs EXCEPT ![r] = AfterRetryYes(runs[r])]
  /\ UNCHANGED <<memVars, storeVars, fetchLotsPending, fetchResPending,
                 wsVars, envVars>>

\* "Yes" of the retry prompt after its await (660-716)
SecondResponse(r, status) ==
  /\ runs[r].pc = "second"
  /\ IF status = "error"
     THEN Failed(r) /\ UNCHANGED nextId
     ELSE IF status = "accepted"
     THEN /\ nextId <= MaxIds
          /\ nextId' = nextId + 1
          /\ Finalize(r, LocalId(nextId))
     ELSE LET next == AlternatePrompt(runs[r], 3, "fallback")
          IN  /\ runs' = [runs EXCEPT ![r] = next]
              /\ IF runs[r].alive
                 THEN /\ reservationLoading' = FALSE
                      /\ IF next.pc = "alt_prompt"
                         THEN /\ selectedLot' = FindLot(runs[r].c.parkingLots, next.alt)
                              /\ costPrediction' = next.alt
                         ELSE UNCHANGED <<selectedLot, costPrediction>>
                 ELSE UNCHANGED <<reservationLoading, selectedLot, costPrediction>>
              /\ UNCHANGED <<mounted, hasActiveReservation, parkingLots,
                             reservations, destination, liveUpdates, storeVars,
                             fetchLotsPending, fetchResPending, wsVars, envVars>>

\* the button of an alternate prompt (632-635, 698-701): makeReservation of
\* the render that created the prompt
AltClick(r) ==
  /\ runs[r].pc = "alt_prompt"
  /\ IF makeReservationGuard(runs[r].c, runs[r].alt) = "send"
     THEN /\ runs' = [runs EXCEPT ![r] =
                        StartedRun(runs[r].c, runs[r].alive, runs[r].alt,
                                   runs[r].viaFallback \/ runs[r].kind = "fallback")]
          /\ reservationLoading' = IF runs[r].alive THEN TRUE ELSE reservationLoading
     ELSE /\ runs' = [runs EXCEPT ![r] = IdleRun]
          /\ reservationLoading' =
               IF makeReservationGuard(runs[r].c, runs[r].alt) = "not_found" /\ runs[r].alive
               THEN FALSE ELSE reservationLoading
  /\ UNCHANGED <<mounted, hasActiveReservation, parkingLots, reservations,
                 destination, selectedLot, costPrediction, liveUpdates,
                 storeVars, fetchLotsPending, fetchResPending, wsVars, envVars>>

\* a prompt that is not answered disappears when its duration is over
\* (706: duration 9000; the other prompts use the library's default)
ToastExpire(r) ==
  /\ IsPrompt(runs[r])
  /\ runs' = [runs EXCEPT ![r] = IdleRun]
  /\ UNCHANGED <<memVars, storeVars, fetchLotsPending, fetchResPending,
                 wsVars, envVars>>

\* the geolocation watcher reports a move (317-327): toast.dismiss()
GpsMoved ==
  /\ mounted
  /\ \E r \in RunIds : IsPrompt(runs[r])
  /\ runs' = DismissAllToasts(runs)
  /\ UNCHANGED <<memVars, storeVars, fetchLotsPending, fetchResPending,
                 wsVars, envVars>>

\* ------------------------------------------------------------------------
\* WebSocket connections (159-251)
\* ------------------------------------------------------------------------
\* connectWebSocket of a render whose liveUpdates and reservations are given
OpenSocket(live, resIds, alive) ==
  [st |-> "open", liveUpdates |-> live, resIds |-> resIds, alive |-> alive,
   reconnected |-> FALSE]

\* ws.close() / loss of the connection: onclose arms the 3 s reconnect timer
CloseSocket(socks, k) ==
  IF k # 0 /\ socks[k].st = "open" THEN [socks EXCEPT ![k].st = "timer"] ELSE socks

FreeSock == CHOOSE k \in SockIds : sockets[k].st = "free" /\ \A j \in SockIds : sockets[j].st = "free" => k <= j

ResIdsOf(list) == {list[i].reservation_id : i \in DOMAIN list}

ConnectionLost(k) ==
  /\ sockets[k].st = "open"
  /\ sockets' = CloseSocket(sockets, k)
  /\ UNCHANGED <<memVars, storeVars, asyncVars, wsRef, envVars>>

\* a timer that gives the connection up
ReconnectTimerGivesUp(k) ==
  /\ sockets[k].st = "timer"
  /\ sockets' = [sockets EXCEPT ![k] = NoSocket]
  /\ wsRef' = IF wsRef = k THEN 0 ELSE wsRef
  /\ UNCHANGED <<memVars, storeVars, asyncVars, envVars>>

\* the timer armed by onclose (236-240): connectWebSocket of the render
\* that created the connection, when that render's liveUpdates is true
ReconnectTimer(k) ==
  /\ sockets[k].st = "timer"
  /\ IF sockets[k].liveUpdates
     THEN /\ sockets' = [sockets EXCEPT ![k].st = "open", ![k].reconnected = TRUE]
          /\ wsRef' = IF sockets[k].alive THEN k ELSE wsRef
     ELSE /\ sockets' = [sockets EXCEPT ![k] = NoSocket]
          /\ wsRef' = IF wsRef = k THEN 0 ELSE wsRef
  /\ UNCHANGED <<memVars, storeVars, asyncVars, envVars>>

\* ------------------------------------------------------------------------
\* Mounting and unmounting the dashboard
\* ------------------------------------------------------------------------
\* the mount effects: hard-reload check (60-79), restore (120-154), and the
\* live-updates effect (162-173).  Line 85 removes from_internal_nav during
\* the render, before the effects run, so the effect of line 63 reads null.
Mount ==
  /\ ~mounted
  /\ ~myReservations.open
  /\ \E k \in SockIds : sockets[k].st = "free"
  /\ LET isReload == docReloaded
         fromInternal == FALSE
         saved == IF isReload /\ ~fromInternal THEN NoDash ELSE dashboard_state
         stateAge == NowMinutes - saved.timestamp
         isExpired == stateAge > ExpiryMinutes
         restore == /\ saved # NoDash
                    /\ saved # UnreadableDash        \* JSON.parse throws (143-147)
                    /\ saved.hasActiveReservation /\ ~isExpired
                    /\ saved.destination # None
     IN  /\ dashboard_state' = IF restore THEN saved ELSE NoDash
         /\ hasActiveReservation' = restore
         /\ destination' = IF restore THEN saved.destination ELSE None
  /\ mounted' = TRUE
  /\ fetchLotsPending' = TRUE
  /\ fetchResPending' = TRUE
  /\ sockets' = [sockets EXCEPT ![FreeSock] = OpenSocket(TRUE, {}, TRUE)]
  /\ wsRef' = FreeSock
  /\ UNCHANGED <<reservationLoading, parkingLots, reservations, selectedLot,
                 costPrediction, liveUpdates, active_reservation,
                 reservation_history, reservations_history, runs, envVars>>

\* the instance goes away: cleanup of the live-updates effect (175-182); the
\* closures of the instance stay, their setState calls no longer do anything
UnmountEffects ==
  /\ mounted' = FALSE
  /\ hasActiveReservation' = FALSE
  /\ reservationLoading' = FALSE
  /\ parkingLots' = <<>>
  /\ reservations' = <<>>
  /\ destination' = None
  /\ selectedLot' = NoLot
  /\ costPrediction' = None
  /\ liveUpdates' = TRUE
  /\ fetchLotsPending' = FALSE
  /\ fetchResPending' = FALSE
  /\ runs' = [r \in RunIds |-> [runs[r] EXCEPT !.alive = FALSE]]
  /\ sockets' = [k \in SockIds |-> [CloseSocket(sockets, wsRef)[k] EXCEPT !.alive = FALSE]]
  /\ wsRef' = 0

\* the dashboard is left: the user follows a link of the navigation bar, or
\* the timer armed by finalizeReservation (803-806) navigates to the
\* reservation page
Unmount ==
  /\ mounted
  /\ UnmountEffects
  /\ applied' = NoApplied
  /\ UNCHANGED <<storeVars, docReloaded, now, nextId, myReservations>>

\* the user reloads the page: every closure, socket and timer is gone
PageReload ==
  /\ mounted \/ ~docReloaded
  /\ mounted' = FALSE
  /\ hasActiveReservation' = FALSE
  /\ reservationLoading' = FALSE
  /\ parkingLots' = <<>>
  /\ reservations' = <<>>
  /\ destination' = None
  /\ selectedLot' = NoLot
  /\ costPrediction' = None
  /\ liveUpdates' = TRUE
  /\ runs' = [r \in RunIds |-> IdleRun]
  /\ fetchLotsPending' = FALSE
  /\ fetchResPending' = FALSE
  /\ sockets' = [k \in SockIds |-> NoSocket]
  /\ wsRef' = 0
  /\ docReloaded' = TRUE
  /\ applied' = NoApplied
  /\ myReservations' = PageClosed
  /\ UNCHANGED <<storeVars, now, nextId>>

\* the "Live Updates" button (1006) and the effect it re-runs (162-183)
ToggleLiveUpdates ==
  /\ mounted
  /\ \E k \in SockIds : sockets[k].st = "free"
  /\ liveUpdates' = ~liveUpdates
  /\ sockets' = [CloseSocket(sockets, wsRef) EXCEPT ![FreeSock] =
                   OpenSocket(~liveUpdates, ResIdsOf(reservations), TRUE)]
  /\ wsRef' = FreeSock
  /\ fetchLotsPending' = TRUE
  /\ fetchResPending' = TRUE
  /\ UNCHANGED <<mounted, hasActiveReservation, reservationLoading,
                 parkingLots, reservations, destination, selectedLot,
                 costPrediction, storeVars, runs, envVars>>

Tick ==
  /\ now < MaxTime
  /\ now' = now + 1
  /\ UNCHANGED <<memVars, storeVars, asyncVars, wsVars, docReloaded, nextId,
                 applied, myReservations>>

\* the text stored under "active_reservation", or under "dashboard_state",
\* is damaged outside the dashboard (another tab, a browser extension, a
\* partial write)
CorruptStorage ==
  /\ active_reservation # Unreadable
  /\ active_reservation' = Unreadable
  /\ UNCHANGED <<memVars, reservation_history, reservations_history,
                 dashboard_state, asyncVars, wsVars, envVars>>

CorruptDashboardState ==
  /\ dashboard_state # UnreadableDash
  /\ dashboard_state' = UnreadableDash
  /\ UNCHANGED <<memVars, active_reservation, reservation_history,
                 reservations_history, asyncVars, wsVars, envVars>>

\* ------------------------------------------------------------------------
\* The MyReservations page (pages/MyReservations.js)
\* ------------------------------------------------------------------------
\* hist.sort((a, b) => b.timestamp - a.timestamp): newest first, stable
RECURSIVE InsertByTimestamp(_, _)
InsertByTimestamp(x, s) ==
  IF s = <<>> THEN <<x>>
  ELSE IF Head(s).timestamp >= x.timestamp
       THEN <<Head(s)>> \o InsertByTimestamp(x, Tail(s))
       ELSE <<x>> \o s

RECURSIVE SortByTimestamp(_)
SortByTimestamp(s) ==
  IF s = <<>> THEN <<>>
  ELSE InsertByTimestamp(s[Len(s)], SortByTimestamp(SubSeq(s, 1, Len(s) - 1)))

\* the route /my-reservations is opened and the mount effect (10-15) reads
\* localStorage; an unreadable active_reservation makes the effect throw
\* and the page is not shown
OpenMyReservations ==
  /\ ~mounted
  /\ ~myReservations.open
  /\ ~ParseThrows(active_reservation)
  /\ myReservations' = [open |-> TRUE, history |-> SortByTimestamp(reservation_history)]
  /\ UNCHANGED <<memVars, storeVars, asyncVars, wsVars, docReloaded, now,
                 nextId, applied>>

\* "Back to Dashboard" (31) or any other way of leaving the page
CloseMyReservations ==
  /\ myReservations.open
  /\ myReservations' = PageClosed
  /\ UNCHANGED <<memVars, storeVars, asyncVars, wsVars, docReloaded, now,
                 nextId, applied>>

\* history.filter((r) => r.reservation_id !== id)
WithoutId(list, id) == SelectSeq(list, LAMBDA res : res.reservation_id # id)

\* handleDelete (17-21), for an entry the page shows
handleDelete(id) ==
  /\ myReservations.open
  /\ \E i \in DOMAIN myReservations.history :
        myReservations.history[i].reservation_id = id
  /\ myReservations' = [myReservations EXCEPT !.history = WithoutId(@, id)]
  /\ reservation_history' = WithoutId(myReservations.history, id)
  /\ UNCHANGED <<memVars, active_reservation, reservations_history,
                 dashboard_state, asyncVars, wsVars, docReloaded, now,
                 nextId, applied>>

\* clearAll (23-26)
clearAll ==
  /\ myReservations.open
  /\ myReservations' = [myReservations EXCEPT !.history = <<>>]
  /\ reservation_history' = <<>>
  /\ UNCHANGED <<memVars, active_reservation, reservations_history,
                 dashboard_state, asyncVars, wsVars, docReloaded, now,
                 nextId, applied>>

\* ------------------------------------------------------------------------
\* Refreshes (427-455)
\* ------------------------------------------------------------------------
\* what GET /parking-lots can return: every lot with counts that add up
ServerLots ==
  {<<MkLot("P1", 0, 0, 1), MkLot("P2", 0, 0, 2)>>,
   <<MkLot("P1", 1, 0, 0), MkLot("P2", 1, 0, 1)>>}

\* fetchParkingLots: a list of lots, or a body without a list (436)
FetchLotsResponse(lots) ==
  /\ mounted
  /\ fetchLotsPending
  /\ fetchLotsPending' = FALSE
  /\ parkingLots' = lots
  /\ applied' = NoApplied
  /\ UNCHANGED <<mounted, hasActiveReservation, reservationLoading,
                 reservations, destination, selectedLot, costPrediction,
                 liveUpdates, storeVars, runs, fetchResPending,
                 wsVars, docReloaded, now, nextId, myReservations>>

\* the interval of the live-updates effect (168-173)
IntervalTick ==
  /\ mounted
  /\ liveUpdates
  /\ ~fetchLotsPending
  /\ fetchLotsPending' = TRUE
  /\ UNCHANGED <<memVars, storeVars, runs, fetchResPending,
                 wsVars, envVars>>

\* what GET /reservations/user_001 can return
ServerReservations ==
  {<<>>, <<[reservation_id |-> 1, lot_id |-> "P1", status |-> "active", timestamp |-> 0]>>}

HasActive(list) == \E i \in DOMAIN list : list[i].status = "active"

\* fetchUserReservations (444-455)
FetchReservationsResponse(data) ==
  /\ mounted
  /\ fetchResPending
  /\ fetchResPending' = FALSE
  /\ reservations' = data
  /\ hasActiveReservation' = HasActive(data)
  /\ UNCHANGED <<mounted, reservationLoading, parkingLots, destination,
                 selectedLot, costPrediction, liveUpdates, storeVars, runs,
                 fetchLotsPending, wsVars, envVars>>

\* ------------------------------------------------------------------------
\* Page actions that set what the reserve buttons act on
\* ------------------------------------------------------------------------
\* a destination is chosen on the map (936-958) or cleared (1141-1146)
SetDestination(d) ==
  /\ mounted
  /\ destination # d
  /\ destination' = d
  /\ UNCHANGED <<mounted, hasActiveReservation, reservationLoading,
                 parkingLots, reservations, selectedLot, costPrediction,
                 liveUpdates, storeVars, asyncVars, wsVars, envVars>>

\* a lot card is clicked (1240) or the lot panel is closed (1267)
SelectLot(i) ==
  /\ mounted
  /\ selectedLot = NoLot
  /\ i \in DOMAIN parkingLots
  /\ selectedLot' = parkingLots[i]
  /\ UNCHANGED <<mounted, hasActiveReservation, reservationLoading,
                 parkingLots, reservations, destination, costPrediction,
                 liveUpdates, storeVars, asyncVars, wsVars, envVars>>

BackToLocations ==
  /\ mounted
  /\ selectedLot # NoLot
  /\ selectedLot' = NoLot
  /\ UNCHANGED <<mounted, hasActiveReservation, reservationLoading,
                 parkingLots, reservations, destination, costPrediction,
                 liveUpdates, storeVars, asyncVars, wsVars, envVars>>

\* predictCost (457-568).  totalScore = 0.6 availability + 0.4 distanceScore,
\* kept as the fraction PredictNum / total_slots scaled by 5000
PredictNum(l) == 3000 * (l.total_slots - Utilized(l)) + 40 * Max(0, 50 - Dist10(l.lot_id)) * l.total_slots

PredictGeq(a, b) == PredictNum(a) * b.total_slots >= PredictNum(b) * a.total_slots

PredictEligible(l) == Dist10(l.lot_id) < 60 /\ l.competitive_slots > 0

\* the first element of the filtered list sorted by descending totalScore
RECURSIVE BestByPredict(_)
BestByPredict(s) ==
  IF s = <<>> THEN NoLot
  ELSE LET rest == BestByPredict(Tail(s))
       IN  IF rest = NoLot \/ PredictGeq(Head(s), rest) THEN Head(s) ELSE rest

\* answer = a lot id proposed by POST /predict-cost, or None when the
\* backend proposes nothing and the frontend ranks the lots itself
PredictCost(answer) ==
  /\ mounted
  /\ destination # None
  /\ IF answer # None
     THEN /\ costPrediction' = answer
          /\ selectedLot' = FindLot(parkingLots, answer)
     ELSE LET optimalLot == BestByPredict(SelectSeq(parkingLots, PredictEligible))
          IN  /\ optimalLot # NoLot
              /\ costPrediction' = optimalLot.lot_id
              /\ selectedLot' = optimalLot
  /\ UNCHANGED <<mounted, hasActiveReservation, reservationLoading,
                 parkingLots, reservations, destination, liveUpdates,
                 storeVars, asyncVars, wsVars, envVars>>

\* ------------------------------------------------------------------------
\* The feed: a message arrives on an open socket k and its onmessage
\* handler runs; handleWebSocketMessage (253-302) is the one of the render
\* that created the socket
\* ------------------------------------------------------------------------
\* (ts is the timestamp of the event; the handler does not read it)
SensorUpdates ==
  {[type |-> "sensor_update", lot_id |-> id, occupied_slots |-> occ,
    competitive_slots |-> comp, ts |-> t] :
     id \in LotIdSet, occ \in 0..1, comp \in 0..1, t \in 1..MaxStamp}

ReservationUpdates ==
  {[type |-> "reservation_update", lot_id |-> id, reservation_id |-> rid,
    accepted |-> acc] :
     id \in LotIdSet, rid \in 1..MaxIds, acc \in BOOLEAN}

\* an update that is added to the counts instead of replacing them
updateParkingLotStatusAdded(lots, data) ==
  [i \in DOMAIN lots |->
     IF lots[i].lot_id = data.lot_id
     THEN [lots[i] EXCEPT !.occupied_slots = @ + data.occupied_slots,
                          !.competitive_slots = data.competitive_slots]
     ELSE lots[i]]

\* updateParkingLotStatus (341-354)
updateParkingLotStatus(lots, data) ==
  [i \in DOMAIN lots |->
     IF lots[i].lot_id = data.lot_id
     THEN [lots[i] EXCEPT !.occupied_slots = data.occupied_slots,
                          !.competitive_slots = data.competitive_slots]
     ELSE lots[i]]

\* the setParkingLots updater of case 'reservation_update' (260-270)
ApplyReservationUpdate(lots, data) ==
  [i \in DOMAIN lots |->
     IF lots[i].lot_id = data.lot_id
     THEN [lots[i] EXCEPT
             !.reserved_slots = IF data.accepted THEN lots[i].reserved_slots + 1
                                ELSE lots[i].reserved_slots,
             !.competitive_slots =
                Max(lots[i].competitive_slots - (IF data.accepted THEN 1 ELSE 0), 0)]
     ELSE lots[i]]

\* case 'sensor_update' (255-257)
SensorUpdate(k, data) ==
  /\ sockets[k].st = "open"
  /\ parkingLots' = IF sockets[k].alive
                    THEN updateParkingLotStatus(parkingLots, data)
                    ELSE parkingLots
  /\ applied' = IF sockets[k].alive /\ InCache(parkingLots, data.lot_id)
                THEN [applied EXCEPT ![data.lot_id].ts = Max(@, data.ts)]
                ELSE applied
  /\ UNCHANGED <<mounted, hasActiveReservation, reservationLoading,
                 reservations, destination, selectedLot, costPrediction,
                 liveUpdates, storeVars, asyncVars, wsVars, docReloaded, now,
                 nextId, myReservations>>

\* case 'reservation_update' (258-292)
ReservationUpdate(k, data) ==
  /\ sockets[k].st = "open"
  /\ LET sock == sockets[k]
         existing == data.reservation_id \in sock.resIds
         newRes == NewReservation(data.reservation_id, data.lot_id)
         counted == sock.alive /\ data.accepted /\ InCache(parkingLots, data.lot_id)
     IN  /\ counted => FindLot(parkingLots, data.lot_id).reserved_slots < MaxReserved
         /\ parkingLots' = IF sock.alive
                           THEN ApplyReservationUpdate(parkingLots, data)
                           ELSE parkingLots
         /\ applied' = IF counted
                       THEN [applied EXCEPT ![data.lot_id].fed = @ \cup {data.reservation_id}]
                       ELSE applied
         /\ IF ~existing /\ data.accepted
            THEN /\ Len(reservations_history) < MaxList
                 /\ reservations_history' = Append(reservations_history, newRes)
                 /\ reservations' = IF sock.alive THEN Append(reservations, newRes)
                                    ELSE reservations
                 /\ hasActiveReservation' = IF sock.alive THEN TRUE
                                            ELSE hasActiveReservation
            ELSE UNCHANGED <<reservations_history, reservations, hasActiveReservation>>
  /\ UNCHANGED <<mounted, reservationLoading, destination, selectedLot,
                 costPrediction, liveUpdates, active_reservation,
                 reservation_history, dashboard_state, asyncVars, wsVars,
                 docReloaded, now, nextId, myReservations>>

\* case 'optimization_update' (296-298, 392-395): fetchParkingLots()
OptimizationUpdate(k) ==
  /\ sockets[k].st = "open"
  /\ sockets[k].alive
  /\ ~fetchLotsPending
  /\ fetchLotsPending' = TRUE
  /\ UNCHANGED <<memVars, storeVars, runs, fetchResPending, wsVars, envVars>>

\* ------------------------------------------------------------------------
\* Specification
\* ------------------------------------------------------------------------
Next ==
  \/ Mount
  \/ Unmount
  \/ PageReload
  \/ ToggleLiveUpdates
  \/ Tick
  \/ CorruptStorage
  \/ CorruptDashboardState
  \/ \E lots \in ServerLots \cup {<<>>} : FetchLotsResponse(lots)
  \/ IntervalTick
  \/ \E data \in ServerReservations : FetchReservationsResponse(data)
  \/ \E d \in {Destination, None} : SetDestination(d)
  \/ \E i \in 1..Len(LotIds) : SelectLot(i)
  \/ BackToLocations
  \/ \E answer \in LotIdSet \cup {None} : PredictCost(answer)
  \/ ReserveNow
  \/ \E i \in 0..1 : SlotClick(i)
  \/ ReserveSelected
  \/ \E r \in RunIds, status \in Statuses : FirstResponse(r, status)
  \/ \E r \in RunIds : RetryNo(r)
  \/ \E r \in RunIds : RetryYes(r)
  \/ \E r \in RunIds, status \in Statuses : SecondResponse(r, status)
  \/ \E r \in RunIds : AltClick(r)
  \/ \E r \in RunIds : ToastExpire(r)
  \/ GpsMoved
  \/ \E k \in SockIds : ConnectionLost(k)
  \/ \E k \in SockIds : ReconnectTimer(k)
  \/ \E k \in SockIds, data \in SensorUpdates : SensorUpdate(k, data)
  \/ \E k \in SockIds, data \in ReservationUpdates : ReservationUpdate(k, data)
  \/ \E k \in SockIds : OptimizationUpdate(k)
  \/ OpenMyReservations
  \/ CloseMyReservations
  \/ \E id \in 1..MaxIds : handleDelete(id)
  \/ clearAll

Spec == Init /\ [][Next]_vars

\* The retry protocol of one mounted dashboard
NextRetry ==
  \/ Mount
  \/ \E lots \in ServerLots : FetchLotsResponse(lots)
  \/ \E d \in {Destination, None} : SetDestination(d)
  \/ \E answer \in LotIdSet \cup {None} : PredictCost(answer)
  \/ ReserveNow
  \/ \E r \in RunIds, status \in Statuses : FirstResponse(r, status)
  \/ \E r \in RunIds : RetryNo(r)
  \/ \E r \in RunIds : RetryYes(r)
  \/ \E r \in RunIds, status \in Statuses : SecondResponse(r, status)
  \/ \E r \in RunIds : AltClick(r)
  \/ \E r \in RunIds : ToastExpire(r)

SpecRetry == Init /\ [][NextRetry]_vars

\* Sessions: the dashboard is left and opened again while time passes
NextSession ==
  \/ Mount
  \/ Unmount
  \/ Tick
  \/ \E lots \in ServerLots : FetchLotsResponse(lots)
  \/ \E d \in {Destination, None} : SetDestination(d)
  \/ \E answer \in LotIdSet \cup {None} : PredictCost(answer)
  \/ ReserveNow
  \/ \E r \in RunIds, status \in Statuses : FirstResponse(r, status)
  \/ \E r \in RunIds : ToastExpire(r)

SpecSession == Init /\ [][NextSession]_vars

\* Reservations over sessions, with reloads of the document and
\* with the MyReservations page
NextHistory ==
  \/ Mount
  \/ Unmount
  \/ Tick
  \/ FetchLotsResponse(<<MkLot("P1", 0, 0, 1), MkLot("P2", 0, 0, 2)>>)
  \/ SetDestination(Destination)
  \/ PredictCost("P2")
  \/ ReserveNow
  \/ \E r \in RunIds, status \in Statuses : FirstResponse(r, status)
  \/ \E r \in RunIds : ToastExpire(r)
  \/ PageReload
  \/ OpenMyReservations
  \/ CloseMyReservations
  \/ \E id \in 1..MaxIds : handleDelete(id)
  \/ clearAll

SpecHistory == Init /\ [][NextHistory]_vars

\* The retry protocol with a localStorage that can be damaged
NextStorage ==
  \/ NextRetry
  \/ CorruptStorage
  \/ CorruptDashboardState

SpecStorage == Init /\ [][NextStorage]_vars

\* First attempts of one mounted dashboard while the feed reports
\* reservations
NextFeed ==
  \/ Mount
  \/ \E lots \in ServerLots : FetchLotsResponse(lots)
  \/ \E d \in {Destination, None} : SetDestination(d)
  \/ \E answer \in LotIdSet \cup {None} : PredictCost(answer)
  \/ ReserveNow
  \/ \E r \in RunIds, status \in Statuses : FirstResponse(r, status)
  \/ \E r \in RunIds : ToastExpire(r)
  \/ \E k \in SockIds, data \in ReservationUpdates : ReservationUpdate(k, data)

SpecFeed == Init /\ [][NextFeed]_vars

\* sensor updates whose counts fit the capacity of their lot
FittingSensorUpdates ==
  {data \in SensorUpdates :
     data.occupied_slots + data.competitive_slots <= TotalSlots(data.lot_id)}

\* The occupancy cache of one mounted dashboard under the feed
NextCache ==
  \/ Mount
  \/ \E lots \in ServerLots : FetchLotsResponse(lots)
  \/ \E k \in SockIds, data \in FittingSensorUpdates : SensorUpdate(k, data)
  \/ \E k \in SockIds, data \in ReservationUpdates : ReservationUpdate(k, data)

SpecCache == Init /\ [][NextCache]_vars

\* The scoring functions over the caches that the backend and the feed can
\* produce: two lots in either order, nothing reserved yet, with every
\* occupied count up to the capacity and an available count of 0 or 1
LotStates(id) ==
  {MkLot(id, occ, 0, comp) : occ \in 0..TotalSlots(id), comp \in 0..1}

ScoringCaches ==
  {<<a, b>> : a \in UNION {LotStates(id) : id \in AllLotIds},
              b \in UNION {LotStates(id) : id \in AllLotIds}}

InitScoring ==
  /\ mounted = TRUE
  /\ hasActiveReservation = FALSE
  /\ reservationLoading = FALSE
  /\ parkingLots \in {lots \in ScoringCaches : lots[1].lot_id # lots[2].lot_id}
  /\ reservations = <<>>
  /\ destination = Destination
  /\ selectedLot = NoLot
  /\ costPrediction = None
  /\ liveUpdates = TRUE
  /\ active_reservation = NoRes
  /\ reservation_history = <<>>
  /\ reservations_history = <<>>
  /\ dashboard_state = NoDash
  /\ runs = [r \in RunIds |-> IdleRun]
  /\ fetchLotsPending = FALSE
  /\ fetchResPending = FALSE
  /\ sockets = [k \in SockIds |-> IF k = 1 THEN OpenSocket(TRUE, {}, TRUE) ELSE NoSocket]
  /\ wsRef = 1
  /\ docReloaded = FALSE
  /\ now = 0
  /\ nextId = 1
  /\ applied = NoApplied
  /\ myReservations = PageClosed

NextScoring ==
  \/ \E answer \in AllLotIds \cup {None} : PredictCost(answer)
  \/ ReserveNow
  \/ \E r \in RunIds, status \in {"accepted", "rejected"} : FirstResponse(r, status)
  \/ \E r \in RunIds : RetryNo(r)
  \/ \E r \in RunIds : RetryYes(r)
  \/ \E r \in RunIds : SecondResponse(r, "rejected")
  \/ \E r \in RunIds : AltClick(r)

SpecScoring == InitScoring /\ [][NextScoring]_vars

\* the reservation events that report an accepted reservation on lot P1
AcceptedUpdatesP1 ==
  {data \in ReservationUpdates : data.accepted /\ data.lot_id = "P1"}

\* Attempts and alternate prompts of one mounted dashboard while the list
\* of the user's reservations and the feed report reservations
NextGuard ==
  \/ Mount
  \/ FetchLotsResponse(<<MkLot("P1", 0, 0, 1), MkLot("P2", 0, 0, 2)>>)
  \/ \E data \in ServerReservations : FetchReservationsResponse(data)
  \/ SetDestination(Destination)
  \/ \E answer \in LotIdSet : PredictCost(answer)
  \/ ReserveNow
  \/ \E r \in RunIds, status \in {"accepted", "rejected"} : FirstResponse(r, status)
  \/ \E r \in RunIds : RetryNo(r)
  \/ \E r \in RunIds : AltClick(r)
  \/ \E r \in RunIds : ToastExpire(r)
  \/ \E k \in SockIds, data \in AcceptedUpdatesP1 : ReservationUpdate(k, data)

SpecGuard == Init /\ [][NextGuard]_vars

\* the sensor updates of lot P1 with the first timestamp
FirstSensorUpdates ==
  {data \in FittingSensorUpdates : data.lot_id = "P1" /\ data.ts = 1}

\* The feed connections of the dashboard: the live-updates effect, its
\* cleanup, losses of the connection and the reconnect timer
NextSockets ==
  \/ Mount
  \/ Unmount
  \/ ToggleLiveUpdates
  \/ FetchLotsResponse(<<MkLot("P1", 0, 0, 1), MkLot("P2", 0, 0, 2)>>)
  \/ \E k \in SockIds : ConnectionLost(k)
  \/ \E k \in SockIds : ReconnectTimer(k)
  \/ \E k \in SockIds, data \in FirstSensorUpdates : SensorUpdate(k, data)

SpecSockets == Init /\ [][NextSockets]_vars

\* a timer that has been armed fires
FairSockets ==
  /\ SpecSockets
  /\ \A k \in SockIds : WF_vars(ReconnectTimer(k))

\* the retry protocol with the scheduling the claims about termination
\* assume: a commit request in flight gets its response, and a prompt on
\* the screen gets an answer from the user
FairRetry ==
  /\ SpecRetry
  /\ \A r \in RunIds :
       /\ WF_vars(\E status \in Statuses : FirstResponse(r, status))
       /\ WF_vars(\E status \in Statuses : SecondResponse(r, status))
       /\ WF_vars(RetryYes(r) \/ RetryNo(r))
       /\ WF_vars(AltClick(r))

\* ------------------------------------------------------------------------
\* Properties
\* ------------------------------------------------------------------------

\* C1: a second-chance request (first_request: false) is sent only by the
\* "Yes" button of the retry prompt that the rejection of the first request
\* opened; a rejection never resubmits by itself.
C1_SecondChanceOnlyAfterYes ==
  [][\A r \in RunIds :
       (/\ runs'[r].req # runs[r].req
        /\ runs'[r].req # NoReq
        /\ ~runs'[r].req.first_request)
       => (runs[r].pc = "retry_prompt" /\ RetryYes(r))]_vars

C1_Witness ==
  \E r \in RunIds :
    /\ runs[r].pc = "second"
    /\ runs[r].confirmed
    /\ ~runs[r].req.first_request

\* C2: every second-chance request in flight targets the lot whose first
\* request was just rejected, and it is the only second-chance request sent
\* since that rejection.
C2_SecondChanceSameLotOnce ==
  \A r \in RunIds :
    (runs[r].req # NoReq /\ ~runs[r].req.first_request)
    => (/\ runs[r].req.parking_lot_id = runs[r].rejectedLot
        /\ runs[r].nSecond <= 1)

C2_Witness ==
  \E r \in RunIds :
    /\ runs[r].req = [parking_lot_id |-> "P2", first_request |-> FALSE]
    /\ runs[r].rejectedLot = "P2"
    /\ runs[r].nSecond = 1
    /\ findBestAlternateLotsCRPark(runs[r].c.parkingLots, runs[r].c.destination, 1)[1].lot_id = "P1"

\* C3: the alternates that the fallback search finds after a rejected second
\* chance never contain the lot that was just rejected.
C3_FallbackExcludesRejectedLot ==
  \A r \in RunIds :
    (runs[r].pc = "alt_prompt" /\ runs[r].kind = "fallback")
    => LET alts == findBestAlternateLotsCRPark(runs[r].c.parkingLots,
                                                runs[r].c.destination, 3)
       IN  /\ \A i \in DOMAIN alts : alts[i].lot_id # runs[r].rejectedLot
           /\ runs[r].alt # runs[r].rejectedLot

\* C4: an attempt on a fallback candidate never leads to the retry prompt
\* or to a second-chance request: after the fallback search a run only ends.
C4_FallbackNeverReopensRetry ==
  \A r \in RunIds :
    runs[r].viaFallback => runs[r].pc \notin {"retry_prompt", "second"}

\* C5: every run that has started ends (committed or failed), given that
\* requests return and prompts are answered.
C5_EveryRunTerminates ==
  \A r \in RunIds : (runs[r].pc # "idle") ~> (runs[r].pc = "idle")

\* C6: at most one commit request is in flight at any time.
C6_OneCommitRequestPending ==
  Cardinality({r \in RunIds : runs[r].req # NoReq}) <= 1

\* C7: once a reservation is stored as the active one, it is the only
\* record with status active, in the stored history and in the in-memory
\* list of reservations.
C7_ExactlyOneActiveCommitment ==
  (active_reservation # NoRes /\ active_reservation # Unreadable)
  => /\ \A i \in DOMAIN reservation_history :
          reservation_history[i].status = "active"
          => reservation_history[i] = active_reservation
     /\ \A i \in DOMAIN reservations :
          reservations[i].status = "active"
          => reservations[i] = active_reservation

\* C8: a step that replaces a stored active reservation leaves the previous
\* one in the stored history with status completed, stores the new one with
\* status active, and stores a dashboard snapshot stamped with the time of
\* the step.
C8_FinalizeRetiresPrevious ==
  [][(active_reservation # NoRes /\ active_reservation' # active_reservation)
     => (/\ \E i \in DOMAIN reservation_history' :
               reservation_history'[i] = Completed(active_reservation)
         /\ active_reservation'.status = "active"
         /\ dashboard_state' # NoDash
         /\ dashboard_state'.timestamp = NowMinutes)]_vars

\* C9: the step that handles an accepted response, of a first request or of
\* a second-chance request, stores a new active reservation for the lot of
\* the request and, in the cache of the dashboard that sent it, raises the
\* lot's reserved_slots by one and lowers its competitive_slots by one (not
\* below zero).
C9_AcceptedCreatesCommitment ==
  [][\A r \in RunIds :
       (FirstResponse(r, "accepted") \/ SecondResponse(r, "accepted"))
       => (/\ active_reservation' # active_reservation
           /\ active_reservation'.status = "active"
           /\ active_reservation'.lot_id = runs[r].lotId
           /\ (runs[r].alive /\ InCache(parkingLots, runs[r].lotId))
              => LET old == FindLot(parkingLots, runs[r].lotId)
                     new == FindLot(parkingLots', runs[r].lotId)
                 IN  /\ new.reserved_slots = old.reserved_slots + 1
                     /\ new.competitive_slots = Max(old.competitive_slots - 1, 0))]_vars

\* C10: when the adjustment for a reservation is already contained in the
\* counts of the cache, processing the other notice of the same reservation
\* (the feed event after the optimistic update, or the accepted response
\* after the feed event) leaves the counts as they are.
C10_AdjustmentReconciled ==
  [][/\ \A k \in SockIds, data \in ReservationUpdates :
          (/\ ReservationUpdate(k, data)
           /\ sockets[k].alive /\ data.accepted
           /\ data.reservation_id \in applied[data.lot_id].opt)
          => parkingLots' = parkingLots
     /\ \A r \in RunIds :
          (/\ FirstResponse(r, "accepted")
           /\ runs[r].alive
           /\ nextId \in applied[runs[r].lotId].fed)
          => parkingLots' = parkingLots]_vars

\* C11: every lot of the cache has occupied + reserved <= capacity and
\* available = capacity - occupied - reserved, when the refreshes and the
\* feed events carry counts that fit.
C11_CacheCountsConsistent ==
  \A i \in DOMAIN parkingLots :
    /\ parkingLots[i].occupied_slots + parkingLots[i].reserved_slots
         <= parkingLots[i].total_slots
    /\ parkingLots[i].competitive_slots
         = parkingLots[i].total_slots - parkingLots[i].occupied_slots
           - parkingLots[i].reserved_slots

\* C12: a sensor update that is older than one already written into the
\* cache for the same lot leaves the cache as it is.
C12_OlderUpdateDropped ==
  [][\A k \in SockIds, data \in SensorUpdates :
       (/\ SensorUpdate(k, data)
        /\ sockets[k].alive
        /\ data.ts < applied[data.lot_id].ts)
       => parkingLots' = parkingLots]_vars

\* C13: after a sensor update has been applied, applying the same event
\* again leaves every count of the cache as it is.
C13_SensorUpdateIdempotent ==
  [][\A k \in SockIds, data \in SensorUpdates :
       (SensorUpdate(k, data) /\ sockets[k].alive)
       => updateParkingLotStatus(parkingLots', data) = parkingLots']_vars

C13_Witness ==
  \E i \in DOMAIN parkingLots :
    /\ applied[parkingLots[i].lot_id].ts > 0
    /\ parkingLots[i].occupied_slots = 1
    /\ parkingLots[i].reserved_slots = 1

\* C14: a reservation event that has already been delivered changes neither
\* the counts of the cache nor the list of reservations when it is
\* delivered again.
C14_ReservationEventOnce ==
  [][\A k \in SockIds, data \in ReservationUpdates :
       (/\ ReservationUpdate(k, data)
        /\ sockets[k].alive /\ data.accepted
        /\ data.reservation_id \in applied[data.lot_id].fed)
       => (parkingLots' = parkingLots /\ reservations' = reservations)]_vars

\* C15: opening the dashboard restores the active reservation only from a
\* stored session younger than the expiry window; when the stored active
\* reservation is older than the window, opening the dashboard restores
\* nothing and removes the stored active reservation; the stored history
\* stays as it is.
C15_ExpiredSessionCleared ==
  [][Mount
     => (/\ hasActiveReservation'
            => (/\ dashboard_state # NoDash
                /\ NowMinutes - dashboard_state.timestamp <= ExpiryMinutes)
         /\ (/\ active_reservation # NoRes
             /\ NowMinutes - active_reservation.timestamp > ExpiryMinutes)
            => (~hasActiveReservation' /\ active_reservation' = NoRes)
         /\ reservation_history' = reservation_history)]_vars

\* C16: every step other than handleDelete and clearAll leaves the stored
\* history as it is or appends to it.
C16_HistoryAppendOnly ==
  [][\/ /\ Len(reservation_history') >= Len(reservation_history)
        /\ SubSeq(reservation_history', 1, Len(reservation_history))
             = reservation_history
     \/ \E id \in 1..MaxIds : handleDelete(id)
     \/ clearAll]_vars

C16_Witness ==
  /\ Len(reservation_history) = 2
  /\ mounted /\ docReloaded
  /\ dashboard_state = NoDash
  /\ active_reservation # NoRes
  /\ now >= 1

\* C17: when the attempt on the fallback lot is accepted, the stored active
\* reservation is for that lot and the stored history holds the two
\* rejected attempts that preceded it.
C17_RejectedAttemptsRecorded ==
  [][\A r \in RunIds :
       (runs[r].viaFallback /\ FirstResponse(r, "accepted"))
       => (/\ active_reservation'.lot_id = runs[r].lotId
           /\ Cardinality({i \in DOMAIN reservation_history' :
                             reservation_history'[i].status = "rejected"}) >= 2)]_vars

\* C18: an unreadable dashboard_state is restored as no session, and an
\* accepted response that finds an unreadable active_reservation still
\* stores the new active reservation.
C18_UnreadableRecordIsEmptySession ==
  [][/\ (Mount /\ dashboard_state = UnreadableDash)
        => (~hasActiveReservation' /\ dashboard_state' = NoDash)
     /\ \A r \in RunIds :
          (/\ ParseThrows(active_reservation)
           /\ FirstResponse(r, "accepted") \/ SecondResponse(r, "accepted"))
          => (/\ active_reservation'.status = "active"
              /\ active_reservation'.lot_id = runs[r].lotId)]_vars

\* C19: a first request that ends without a response (the fetch fails) is
\* followed by the retry prompt, and a second-chance request that ends
\* without a response is followed by the fallback search.
C19_TimeoutTreatedAsRejection ==
  [][\A r \in RunIds :
       /\ FirstResponse(r, "error") => runs'[r].pc = "retry_prompt"
       /\ SecondResponse(r, "error")
          => runs'[r] = AlternatePrompt(runs[r], 3, "fallback")]_vars

\* C20: an accepted response reaches the allocation state of the dashboard
\* on screen, also when the dashboard that sent the request has been left.
C20_OutcomeNotDropped ==
  [][\A r \in RunIds :
       (/\ FirstResponse(r, "accepted")
        /\ ~ParseThrows(active_reservation)
        /\ mounted)
       => hasActiveReservation']_vars

\* C21: a connection of a render that wants live updates is opened again
\* by the timer that its loss arms, every time it is lost; a mounted
\* dashboard with live updates switched on always has such a connection,
\* open or waiting for its timer; and the loss of a connection only arms
\* the timer: it changes neither the allocation runs nor the in-progress
\* flag.
C21_ReconnectWhileDesired ==
  /\ \A k \in SockIds :
       (sockets[k].st = "timer" /\ sockets[k].liveUpdates)
       ~> (sockets[k].st = "open")
  /\ [](( mounted /\ liveUpdates)
        => \E k \in SockIds :
             /\ sockets[k].st \in {"open", "timer"}
             /\ sockets[k].alive /\ sockets[k].liveUpdates)
  /\ [][\A k \in SockIds :
          ConnectionLost(k)
          => (/\ sockets'[k].st = "timer"
              /\ runs' = runs
              /\ reservationLoading' = reservationLoading
              /\ hasActiveReservation' = hasActiveReservation)]_vars

\* a connection that was lost, opened again by its timer, and lost again
C21_Witness ==
  \E k \in SockIds :
    /\ mounted /\ liveUpdates
    /\ sockets[k].alive /\ sockets[k].liveUpdates
    /\ sockets[k].reconnected
    /\ sockets[k].st = "timer"

\* C22: a connection is opened only for a mounted dashboard whose live
\* updates are switched on: no step opens one for a closure of an unmounted
\* dashboard or while live updates are off.
C22_NoConnectWhenNotDesired ==
  [][\A k \in SockIds :
       (sockets'[k].st = "open" /\ sockets[k].st # "open")
       => (mounted' /\ liveUpdates' /\ sockets'[k].alive)]_vars

\* C23: a reservation event changes the session (the active-reservation
\* flag, the list of reservations, the stored list) only when a commit
\* request of this dashboard for the lot of the event is in flight; any
\* other reservation event changes lot counts only.
C23_OnlyOwnOutcomeDispatched ==
  [][\A k \in SockIds, data \in ReservationUpdates :
       (/\ ReservationUpdate(k, data)
        /\ ~\E r \in RunIds :
              /\ runs[r].req # NoReq
              /\ runs[r].req.parking_lot_id = data.lot_id)
       => (/\ hasActiveReservation' = hasActiveReservation
           /\ reservations' = reservations
           /\ reservations_history' = reservations_history)]_vars

\* C24: the lots that findBestAlternateLotsCRPark returns for an alternate
\* prompt, and the lot that the ranking of predictCost chooses, have an
\* available count (competitive_slots) above zero.
C24_NoUnavailableCandidate ==
  [][/\ PredictCost(None) => selectedLot'.competitive_slots > 0
     /\ \A r \in RunIds :
          (runs'[r].pc = "alt_prompt" /\ runs[r].pc # "alt_prompt")
          => LET alts == findBestAlternateLotsCRPark(
                           runs[r].c.parkingLots, runs[r].c.destination,
                           IF runs'[r].kind = "fallback" THEN 3 ELSE 1)
             IN  \A i \in DOMAIN alts : alts[i].competitive_slots > 0]_vars

\* C25: the lot that an alternate prompt of the fallback search proposes,
\* the lot of a commit request sent from such a prompt, and the lot that
\* the ranking of predictCost chooses, are at most 6 km from the
\* destination.
C25_NoCandidateBeyondThreshold ==
  [][/\ PredictCost(None) => Dist10(selectedLot'.lot_id) <= 60
     /\ \A r \in RunIds :
          /\ (runs'[r].pc = "alt_prompt" /\ runs'[r].kind = "fallback")
             => Dist10(runs'[r].alt) <= 60
          /\ (runs'[r].pc = "first" /\ runs'[r].viaFallback)
             => Dist10(runs'[r].lotId) <= 60]_vars

\* cost = 25 + dist * 3 + utilization * 10 (834), as the fraction
\* CostNum / total_slots scaled by 10
CostNum(l) == (250 + 3 * Dist10(l.lot_id)) * l.total_slots + 100 * Utilized(l)

CostLeq(a, b) == CostNum(a) * b.total_slots <= CostNum(b) * a.total_slots

\* a precedes b in a ranking: higher score, or equal score and lower
\* distance, or equal score and distance and a cost that is not higher
RankedBefore(a, b, Geq(_, _)) ==
  /\ Geq(a, b)
  /\ Geq(b, a)
     => \/ Dist10(a.lot_id) < Dist10(b.lot_id)
        \/ Dist10(a.lot_id) = Dist10(b.lot_id) /\ CostLeq(a, b)

\* C26: the list that findBestAlternateLotsCRPark returns for an alternate
\* prompt is in descending order of total_score, lots of equal score in
\* the order of lower distance and then lower cost; the lot that the
\* ranking of predictCost chooses precedes every other eligible lot in
\* that order.
C26_SortedWithTieBreak ==
  [][/\ PredictCost(None)
        => \A i \in DOMAIN parkingLots :
             PredictEligible(parkingLots[i])
             => \/ parkingLots[i] = selectedLot'
                \/ RankedBefore(selectedLot', parkingLots[i], PredictGeq)
     /\ \A r \in RunIds :
          (runs'[r].pc = "alt_prompt" /\ runs[r].pc # "alt_prompt")
          => LET alts == findBestAlternateLotsCRPark(
                           runs[r].c.parkingLots, runs[r].c.destination, 3)
             IN  \A i, j \in DOMAIN alts :
                   i < j => RankedBefore(alts[i], alts[j], ScoreGeq)]_vars

\* C27: when no allocation run of the mounted dashboard has a request in
\* flight or a prompt on the screen, the in-progress flag is cleared.
C27_LoadingFlagCleared ==
  (mounted /\ \A r \in RunIds : runs[r].pc = "idle") => ~reservationLoading

\* C28: a response of the commit endpoint whose status is not accepted
\* stores no active reservation and leaves the counts of the cache as they
\* are.
C28_CommitOnlyWhenAccepted ==
  [][\A r \in RunIds, status \in Statuses \ {"accepted"} :
       (FirstResponse(r, status) \/ SecondResponse(r, status))
       => (/\ active_reservation' = active_reservation
           /\ reservation_history' = reservation_history
           /\ parkingLots' = parkingLots)]_vars

\* C29: at most one open connection delivers its messages to the mounted
\* dashboard.
C29_OneFeedConnection ==
  Cardinality({k \in SockIds : sockets[k].st = "open" /\ sockets[k].alive}) <= 1

\* C30: no step sends a commit request while the dashboard holds an active
\* reservation.
C30_NoRequestWhileActive ==
  [][\A r \in RunIds :
       (runs'[r].req # NoReq /\ runs'[r].req # runs[r].req)
       => ~hasActiveReservation]_vars

====
